---- MODULE Spec2Model ----
(***************************************************************************)
(* pydantic-sqlalchemy-filterset: a FilterSet is a pydantic model whose    *)
(* fields carry filtering metadata; BaseFilterSet.filter walks the         *)
(* declared fields and folds joins and where-predicates into a query.      *)
(*                                                                         *)
(* A query is modelled as the sequence of builder calls (join, outerjoin,  *)
(* where) made on it, oldest first; every builder call returns a new       *)
(* query, the old one extended by one clause.                              *)
(***************************************************************************)
EXTENDS Integers, Sequences, FiniteSets, TLC

(* ---------------------------------------------------------------- bounds *)
\* Largest number of fields a declared FilterSet class has.
MaxFields == 2
\* Largest number of joins given to one MultiJoinStrategy.
MaxJoins == 2
\* Largest number of columns given to one multi-field filter.
MaxCols == 2

(* ---------------------------------------------------------------- values *)
\* A field value: null (Python None), a string (a sequence of characters),
\* the result of a value mapper, or the PydanticUndefined sentinel.
None == [t |-> "none", s |-> <<>>]
PydanticUndefined == [t |-> "undefined", s |-> <<>>]
Str(chars) == [t |-> "str", s |-> chars]

\* The strings callers supply: "t" and "%t".
SuppliedStrings == {Str(<<"t">>), Str(<<"%", "t">>)}

\* Python's str(value), as used by an f-string: a string formats as itself,
\* None as the four characters of "None", a mapped value inside brackets.
format(value) ==
    CASE value.t = "str" -> value.s
      [] value.t = "none" -> <<"N", "o", "n", "e">>
      [] value.t = "mapped" -> <<"[">> \o value.s \o <<"]">>
      [] OTHER -> <<"U">>

\* The value mappers of the model. "tag" stands for a caller's function
\* that embeds the value in something else (a sub-query): its result is a
\* new value that is never equal to its argument. "boom" stands for a
\* caller's function that raises an exception of its own.
NoMapper == "None"
Mappers == {"tag", "boom"}
mapper_raises(mapper) == mapper = "boom"
MapperError == "RuntimeError: raised by the value mapper"
mapper_call(mapper, value) == [t |-> "mapped", s |-> format(value)]

(* ------------------------------------------------------------ predicates *)
\* sa_op.eq, is_, in_op, like_op, ilike_op, le applied to a column and a value.
Lookup(op, col, value) == [op |-> op, col |-> col, val |-> value]
\* sa_op.or_
or_(a, b) == [op |-> "or", left |-> a, right |-> b]
NoPred == [op |-> "none"]

(* ----------------------------------------------------------------- query *)
NoOnclause == "None"
JoinClause(target, onclause, isouter) ==
    [kind |-> "join", target |-> target, onclause |-> onclause,
     isouter |-> isouter, pred |-> NoPred]
WhereClause(pred) ==
    [kind |-> "where", target |-> "-", onclause |-> "-",
     isouter |-> FALSE, pred |-> pred]

\* Select.where / Select.join / Select.outerjoin
where(query, expr) == Append(query, WhereClause(expr))
join(query, target, onclause) == Append(query, JoinClause(target, onclause, FALSE))
outerjoin(query, target, onclause) == Append(query, JoinClause(target, onclause, TRUE))

(* ------------------------------------------------------------ strategies *)
BaseStrategy == [kind |-> "base", target |-> "-", onclause |-> "-", joins |-> <<>>]
InnerJoinStrategy(target, onclause) ==
    [kind |-> "inner", target |-> target, onclause |-> onclause, joins |-> <<>>]
OuterJoinStrategy(target, onclause) ==
    [kind |-> "outer", target |-> target, onclause |-> onclause, joins |-> <<>>]
MultiJoinStrategy(joins) ==
    [kind |-> "multi", target |-> "-", onclause |-> "-", joins |-> joins]
\* What a constructor gives back: the object, or the exception it raised.
Constructed(strategy) == [tag |-> "ok", strategy |-> strategy, err |-> "-"]
ConstructionError(err) ==
    [tag |-> "raise", strategy |-> BaseStrategy, err |-> err]
NoJoinsError == "ValueError: At least one join must be provided."

\* Mutant: the constructor takes any join list, the empty one too.
MultiJoinStrategy_init_unchecked(joins) == Constructed(MultiJoinStrategy(joins))

\* MultiJoinStrategy.__init__(*joins)
MultiJoinStrategy_init(joins) ==
    IF joins = <<>> THEN ConstructionError(NoJoinsError)
    ELSE Constructed(MultiJoinStrategy(joins))

\* strategy=PydanticUndefined, the builders' default
UndefinedStrategy == [kind |-> "undefined", target |-> "-", onclause |-> "-", joins |-> <<>>]

\* Mutant: the on-clause is not handed to join().
apply_join_without_onclause(strategy, query) ==
    IF strategy.kind = "outer"
    THEN outerjoin(query, strategy.target, NoOnclause)
    ELSE join(query, strategy.target, NoOnclause)

\* Mutant: a join the query already has is not applied again.
apply_join_once(strategy, query) ==
    LET clause == [kind |-> "join", target |-> strategy.target,
                   onclause |-> strategy.onclause,
                   isouter |-> strategy.kind = "outer", pred |-> NoPred]
    IN  IF \E k \in 1..Len(query) : query[k] = clause THEN query
        ELSE Append(query, clause)

\* InnerJoinStrategy.apply_join / OuterJoinStrategy.apply_join
apply_join(strategy, query) ==
    IF strategy.kind = "outer"
    THEN outerjoin(query, strategy.target, strategy.onclause)
    ELSE join(query, strategy.target, strategy.onclause)

\* Mutant: the joins are folded from the right, the last one applied first.
RECURSIVE reduce_apply_join_reversed(_, _)
reduce_apply_join_reversed(joins, query) ==
    IF joins = <<>> THEN query
    ELSE apply_join(Head(joins), reduce_apply_join_reversed(Tail(joins), query))

\* functools.reduce(self.apply_join, self.joins, query)
RECURSIVE reduce_apply_join(_, _)
reduce_apply_join(joins, query) ==
    IF joins = <<>> THEN query
    ELSE reduce_apply_join(Tail(joins), apply_join(Head(joins), query))

\* BaseStrategy.filter / InnerJoinStrategy.filter / MultiJoinStrategy.filter
strategy_filter(strategy, query, expression) ==
    CASE strategy.kind = "base" -> where(query, expression)
      [] strategy.kind \in {"inner", "outer"} ->
            where(apply_join(strategy, query), expression)
      [] strategy.kind = "multi" ->
            where(reduce_apply_join(strategy.joins, query), expression)

\* The elements of a sequence.
Range1(seq) == {seq[i] : i \in 1..Len(seq)}

(* --------------------------------------------------------------- filters *)
SingleFieldClasses ==
    {"_Filter", "_IsFilter", "_InFilter", "_LikeFilter", "_ILikeFilter",
     "_SubstringFilter", "_LTEFilter"}
MultiFieldClasses == {"_MultiFieldFilter", "_MultiFieldSubstringFilter"}
NoFilterClass == "None"

\* The lookup_expr property of each filter class.
lookup_expr(filter_class) ==
    CASE filter_class = "_IsFilter" -> "is_"
      [] filter_class = "_InFilter" -> "in_op"
      [] filter_class = "_LikeFilter" -> "like_op"
      [] filter_class \in {"_ILikeFilter", "_SubstringFilter",
                           "_MultiFieldSubstringFilter"} -> "ilike_op"
      [] filter_class = "_LTEFilter" -> "le"
      [] OTHER -> "eq"

\* _Filter.__init__ / _MultiFieldFilter.__init__: the strategy defaults to
\* BaseStrategy() when none was given.
init_strategy(strategy) ==
    IF strategy.kind = "undefined" THEN BaseStrategy ELSE strategy

\* Mutant: a wildcard the value already has at an end is not added again.
substring_value_if_missing(value) ==
    LET text == format(value)
        left == IF text # <<>> /\ Head(text) = "%" THEN text ELSE <<"%">> \o text
    IN  Str(IF left[Len(left)] = "%" /\ Len(left) > 1 THEN left
            ELSE left \o <<"%">>)

\* value = f"%{value}%"
substring_value(value) == Str(<<"%">> \o format(value) \o <<"%">>)

\* Mutant: _ILikeFilter wraps the value in wildcards as _SubstringFilter does.
Filter_filter_ilike_wrapping(filter_class, field, strategy, query, value) ==
    LET v == IF filter_class \in {"_SubstringFilter", "_ILikeFilter"}
             THEN substring_value(value) ELSE value
    IN strategy_filter(strategy, query, Lookup(lookup_expr(filter_class), field, v))

\* _Filter.filter, with _SubstringFilter.filter's override.
Filter_filter(filter_class, field, strategy, query, value) ==
    LET v == IF filter_class = "_SubstringFilter" THEN substring_value(value) ELSE value
    IN strategy_filter(strategy, query, Lookup(lookup_expr(filter_class), field, v))

\* Mutant: the operands of or_ are swapped, the newest predicate first.
RECURSIVE reduce_or_swapped(_, _, _, _)
reduce_or_swapped(acc, op, fields, value) ==
    IF fields = <<>> THEN acc
    ELSE reduce_or_swapped(or_(Lookup(op, Head(fields), value), acc), op,
                           Tail(fields), value)

\* functools.reduce(sa_op.or_, (lookup_expr(field, value) for field in fields))
RECURSIVE reduce_or(_, _, _, _)
reduce_or(acc, op, fields, value) ==
    IF fields = <<>> THEN acc
    ELSE reduce_or(or_(acc, Lookup(op, Head(fields), value)), op, Tail(fields), value)

\* _MultiFieldFilter.filter, with _MultiFieldSubstringFilter.filter's override.
MultiFieldFilter_filter(filter_class, fields, strategy, query, value) ==
    LET v == IF filter_class = "_MultiFieldSubstringFilter"
             THEN substring_value(value) ELSE value
        op == lookup_expr(filter_class)
        expr == reduce_or(Lookup(op, Head(fields), v), op, Tail(fields), v)
    IN strategy_filter(strategy, query, expr)

(* ----------------------------------------------- field declarations *)
\* One entry of FieldInfo.metadata: the filtering dict the builders append,
\* or anything else pydantic itself puts there (a constraint object).
FilterMetadata(filter_class, fields, strategy) ==
    [is_dict |-> TRUE, sqlalchemy_filter |-> TRUE, filter_class |-> filter_class,
     filter_fields |-> fields, field_strategy |-> strategy, value_mapper |-> NoMapper]
ConstraintMetadata ==
    [is_dict |-> FALSE, sqlalchemy_filter |-> FALSE, filter_class |-> NoFilterClass,
     filter_fields |-> <<>>, field_strategy |-> UndefinedStrategy,
     value_mapper |-> NoMapper]

\* pydantic's Field(default=...), with and without a constraint such as max_length.
Field(default) == [default |-> default, metadata |-> <<>>]
ConstrainedField(default) == [default |-> default, metadata |-> <<ConstraintMetadata>>]

_populate_field_info(filter_class, field, strategy, default) ==
    [default |-> default,
     metadata |-> <<FilterMetadata(filter_class, <<field>>, strategy)>>]
_populate_multifield_info(filter_class, fields, strategy, default) ==
    [default |-> default,
     metadata |-> <<FilterMetadata(filter_class, fields, strategy)>>]

WhereFilter(field, strategy, default) ==
    _populate_field_info("_Filter", field, strategy, default)
IsFilter(field, strategy, default) ==
    _populate_field_info("_IsFilter", field, strategy, default)
InFilter(field, strategy, default) ==
    _populate_field_info("_InFilter", field, strategy, default)
LikeFilter(field, strategy, default) ==
    _populate_field_info("_LikeFilter", field, strategy, default)
ILikeFilter(field, strategy, default) ==
    _populate_field_info("_ILikeFilter", field, strategy, default)
SubstringFilter(field, strategy, default) ==
    _populate_field_info("_SubstringFilter", field, strategy, default)
LTEFilter(field, strategy, default) ==
    _populate_field_info("_LTEFilter", field, strategy, default)
MultiFieldSubstringFilter(fields, strategy, default) ==
    _populate_multifield_info("_MultiFieldSubstringFilter", fields, strategy, default)
\* _MultiFieldFilter has no builder of its own: the declaration names the class.
MultiFieldFilter(fields, strategy, default) ==
    _populate_multifield_info("_MultiFieldFilter", fields, strategy, default)

\* field_info.metadata[-1][VALUE_MAPPER] = callable
FilterValueMapper(callable, field_info) ==
    LET n == Len(field_info.metadata)
    IN [field_info EXCEPT !.metadata[n].value_mapper = callable]

(* ----------------------------------------------------- resolution engine *)
\* Mutant: model_dump() without exclude_unset, declared defaults included.
model_dump_with_defaults(inst) ==
    [i \in 1..Len(inst) |-> inst[i].value]

\* self.model_dump(exclude_unset=True): only the fields the caller supplied.
model_dump(inst) ==
    [i \in {j \in 1..Len(inst) : inst[j].set} |-> inst[i].value]

\* dict.get(key, default)
dict_get(d, key, default) == IF key \in DOMAIN d THEN d[key] ELSE default

\* What one call of parse_field_and_apply_filters gives back: None, a query,
\* or an exception; calls is the log of value-mapper invocations.
ReturnNone(calls) == [tag |-> "none", query |-> <<>>, calls |-> calls, err |-> "-"]
ReturnQuery(q, calls) == [tag |-> "query", query |-> q, calls |-> calls, err |-> "-"]
Raise(err, calls) == [tag |-> "raise", query |-> <<>>, calls |-> calls, err |-> err]

\* The ValueErrors of validate_and_instantiate_filters.
NoFilterClassError == "ValueError: Field has no filter class"
NoFilterFieldsError == "ValueError: Field has no filter field(s)"
UnknownFilterClassError == "ValueError: Field has an unknown filter class"

\* Mutant: the value mapper is applied first, before the descriptor is checked.
validate_mapping_first(field_name, metadata, field_value, query, calls) ==
    LET filter_class == metadata.filter_class
        filter_fields == metadata.filter_fields
        strategy == metadata.field_strategy
        mapper == metadata.value_mapper
        value == IF mapper # NoMapper THEN mapper_call(mapper, field_value)
                 ELSE field_value
        calls2 == IF mapper # NoMapper
                  THEN Append(calls, [field |-> field_name, arg |-> field_value])
                  ELSE calls
    IN  IF mapper # NoMapper /\ mapper_raises(mapper)
        THEN Raise(MapperError, calls2)
        ELSE IF filter_class = NoFilterClass THEN Raise(NoFilterClassError, calls2)
        ELSE IF filter_fields = <<>> THEN Raise(NoFilterFieldsError, calls2)
        ELSE IF filter_class \in SingleFieldClasses
        THEN ReturnQuery(Filter_filter(filter_class, filter_fields[1],
                             init_strategy(strategy), query, value), calls2)
        ELSE IF filter_class \in MultiFieldClasses
        THEN ReturnQuery(MultiFieldFilter_filter(filter_class, filter_fields,
                             init_strategy(strategy), query, value), calls2)
        ELSE Raise(UnknownFilterClassError, calls2)

\* Mutant: the mapper is called but its result is dropped, the filter is
\* handed the field's own value.
validate_dropping_mapped_value(field_name, metadata, field_value, query, calls) ==
    LET filter_class == metadata.filter_class
        filter_fields == metadata.filter_fields
        strategy == metadata.field_strategy
        mapper == metadata.value_mapper
    IN  IF filter_class = NoFilterClass THEN Raise(NoFilterClassError, calls)
        ELSE IF filter_fields = <<>> THEN Raise(NoFilterFieldsError, calls)
        ELSE
          LET calls2 == IF mapper # NoMapper
                        THEN Append(calls, [field |-> field_name, arg |-> field_value])
                        ELSE calls
          IN  IF mapper # NoMapper /\ mapper_raises(mapper)
              THEN Raise(MapperError, calls2)
              ELSE IF filter_class \in SingleFieldClasses
              THEN ReturnQuery(Filter_filter(filter_class, filter_fields[1],
                                   init_strategy(strategy), query, field_value), calls2)
              ELSE IF filter_class \in MultiFieldClasses
              THEN ReturnQuery(MultiFieldFilter_filter(filter_class, filter_fields,
                                   init_strategy(strategy), query, field_value), calls2)
              ELSE Raise(UnknownFilterClassError, calls2)

validate_and_instantiate_filters(field_name, metadata, field_value, query, calls) ==
    LET filter_class == metadata.filter_class
        filter_fields == metadata.filter_fields
        strategy == metadata.field_strategy
        mapper == metadata.value_mapper
    IN  IF filter_class = NoFilterClass THEN Raise(NoFilterClassError, calls)
        ELSE IF filter_fields = <<>> THEN Raise(NoFilterFieldsError, calls)
        ELSE
          LET value == IF mapper # NoMapper THEN mapper_call(mapper, field_value)
                       ELSE field_value
              calls2 == IF mapper # NoMapper
                        THEN Append(calls, [field |-> field_name, arg |-> field_value])
                        ELSE calls
          IN  IF mapper # NoMapper /\ mapper_raises(mapper)
              THEN Raise(MapperError, calls2)
              ELSE IF filter_class \in SingleFieldClasses
              THEN ReturnQuery(Filter_filter(filter_class, filter_fields[1],
                                   init_strategy(strategy), query, value), calls2)
              ELSE IF filter_class \in MultiFieldClasses
              THEN ReturnQuery(MultiFieldFilter_filter(filter_class, filter_fields,
                                   init_strategy(strategy), query, value), calls2)
              ELSE Raise(UnknownFilterClassError, calls2)

\* Mutant: the null test of line 124 is gone, only unset fields are skipped.
parse_field_keeping_none(field_name, field_info, dump, query, exclude_none, calls) ==
    LET field_value == dict_get(dump, field_name, PydanticUndefined)
        n == Len(field_info.metadata)
    IN  IF field_value = PydanticUndefined
        THEN ReturnNone(calls)
        ELSE IF n = 0 THEN ReturnNone(calls)
        ELSE IF ~field_info.metadata[n].is_dict
                \/ ~field_info.metadata[n].sqlalchemy_filter
        THEN ReturnNone(calls)
        ELSE validate_and_instantiate_filters(field_name, field_info.metadata[n],
                                              field_value, query, calls)

\* Mutant: a null is skipped whatever exclude_none says.
parse_field_skipping_none(field_name, field_info, dump, query, exclude_none, calls) ==
    LET field_value == dict_get(dump, field_name, PydanticUndefined)
        n == Len(field_info.metadata)
    IN  IF field_value = PydanticUndefined \/ field_value = None
        THEN ReturnNone(calls)
        ELSE IF n = 0 THEN ReturnNone(calls)
        ELSE IF ~field_info.metadata[n].is_dict
                \/ ~field_info.metadata[n].sqlalchemy_filter
        THEN ReturnNone(calls)
        ELSE validate_and_instantiate_filters(field_name, field_info.metadata[n],
                                              field_value, query, calls)

parse_field_and_apply_filters(field_name, field_info, dump, query, exclude_none, calls) ==
    LET field_value == dict_get(dump, field_name, PydanticUndefined)
        n == Len(field_info.metadata)
    IN  IF field_value = PydanticUndefined \/ (exclude_none /\ field_value = None)
        THEN ReturnNone(calls)
        ELSE IF n = 0 THEN ReturnNone(calls)
        ELSE IF ~field_info.metadata[n].is_dict
                \/ ~field_info.metadata[n].sqlalchemy_filter
        THEN ReturnNone(calls)
        ELSE validate_and_instantiate_filters(field_name, field_info.metadata[n],
                                              field_value, query, calls)

\* Mutant: the query a field's filter returns is dropped, as if the filters
\* changed the query in place.
loop_body_dropping_result(fields, dump, exclude_none, i, st) ==
    LET q == parse_field_and_apply_filters(i, fields[i], dump, st.query,
                                           exclude_none, st.calls)
    IN  CASE q.tag = "raise" ->
               [status |-> "raised", query |-> st.query, calls |-> q.calls,
                err |-> q.err]
          [] OTHER ->
               [status |-> "ok", query |-> st.query, calls |-> q.calls,
                err |-> "-"]

\* One pass of the loop of BaseFilterSet.filter over field number i; st is
\* [status, query, calls, err]: the loop's local query, whether it still
\* runs, and the exception that ended it.
loop_body(fields, dump, exclude_none, i, st) ==
    LET q == parse_field_and_apply_filters(i, fields[i], dump, st.query,
                                           exclude_none, st.calls)
    IN  CASE q.tag = "raise" ->
               [status |-> "raised", query |-> st.query, calls |-> q.calls,
                err |-> q.err]
          [] q.tag = "query" ->
               [status |-> "ok", query |-> q.query, calls |-> q.calls,
                err |-> "-"]
          [] OTHER ->
               [status |-> "ok", query |-> st.query, calls |-> q.calls,
                err |-> "-"]

\* BaseFilterSet.filter as a function: the loop run from field i to the end.
RECURSIVE filter_from(_, _, _, _, _)
filter_from(fields, dump, exclude_none, i, st) ==
    IF i > Len(fields) \/ st.status = "raised" THEN st
    ELSE filter_from(fields, dump, exclude_none, i + 1,
                     loop_body(fields, dump, exclude_none, i, st))

filter(fields, inst, query, exclude_none) ==
    filter_from(fields, model_dump(inst), exclude_none, 1,
                [status |-> "ok", query |-> query, calls |-> <<>>, err |-> "-"])

(* ------------------------------------------------- declared FilterSets *)
OnCategory == "Category.id == Product.category_id"

\* The i-th join handed to a MultiJoinStrategy: the joins differ in target
\* and alternate between inner joins and outer joins.
ChainJoin(i) ==
    CASE i = 1 -> InnerJoinStrategy("ProductCountry", NoOnclause)
      [] i = 2 -> OuterJoinStrategy("Country", NoOnclause)
      [] i = 3 -> InnerJoinStrategy("Category", OnCategory)
      [] OTHER -> OuterJoinStrategy("Product", NoOnclause)
\* The i-th column handed to a multi-field filter.
ChainColumn(i) ==
    CASE i = 1 -> "Product.name"
      [] i = 2 -> "Category.name"
      [] i = 3 -> "Country.name"
      [] OTHER -> "Product.id"

\* Field declarations with no join: plain fields, the single-column filters,
\* a mapped substring filter and a multi-field declaration with no column.
CoreFields ==
    { Field(Str(<<"t">>)),
      WhereFilter("Product.id", UndefinedStrategy, None),
      IsFilter("Product.price", UndefinedStrategy, None),
      ILikeFilter("Product.name", UndefinedStrategy, None),
      WhereFilter("Category.name", InnerJoinStrategy("Category", OnCategory),
                  Str(<<"t">>)),
      FilterValueMapper("tag", SubstringFilter("Product.name", UndefinedStrategy, None)),
      MultiFieldSubstringFilter(<<>>, UndefinedStrategy, None) }

\* Field declarations that join: with and without on-clause, outer, chained.
JoinFields ==
    { ConstrainedField(None),
      WhereFilter("Product.id", UndefinedStrategy, None),
      WhereFilter("Category.name", InnerJoinStrategy("Category", OnCategory), None),
      InFilter("Category.name", InnerJoinStrategy("Category", NoOnclause), None),
      LikeFilter("Category.name", OuterJoinStrategy("Category", NoOnclause), None) }
    \cup { InFilter("Country.name",
                    MultiJoinStrategy([i \in 1..n |-> ChainJoin(i)]), None)
           : n \in 1..MaxJoins }

\* Substring and multi-field declarations.
MultiFields ==
    { SubstringFilter("Product.name", UndefinedStrategy, None),
      FilterValueMapper("tag", SubstringFilter("Product.name", UndefinedStrategy, None)),
      LTEFilter("Product.price", UndefinedStrategy, None),
      FilterValueMapper("tag",
          MultiFieldSubstringFilter([i \in 1..MaxCols |-> ChainColumn(i)],
                                    OuterJoinStrategy("Category", NoOnclause), None)) }
    \cup { MultiFieldFilter([i \in 1..n |-> ChainColumn(i)],
                            InnerJoinStrategy("Category", OnCategory), None)
           : n \in 1..MaxCols }
    \cup { MultiFieldSubstringFilter([i \in 1..n |-> ChainColumn(i)],
                                     UndefinedStrategy, None)
           : n \in 0..MaxCols }

\* Field declarations that go wrong at resolution, among ones that do not:
\* no column, no filter class, a class that is no filter, a mapper that raises.
ErrorFields ==
    { WhereFilter("Product.id", UndefinedStrategy, None),
      FilterValueMapper("tag",
          WhereFilter("Category.name", InnerJoinStrategy("Category", OnCategory), None)),
      FilterValueMapper("tag",
          MultiFieldSubstringFilter(<<>>, UndefinedStrategy, None)),
      FilterValueMapper("tag",
          _populate_field_info(NoFilterClass, "Product.name", UndefinedStrategy, None)),
      FilterValueMapper("tag",
          _populate_field_info("BaseModel", "Product.name", UndefinedStrategy, None)),
      FilterValueMapper("boom", IsFilter("Product.price", UndefinedStrategy, None)) }

\* The queries filter() is called with: select(Product), and a query that
\* already joins Category and carries a predicate.
Queries ==
    { <<>>,
      <<JoinClause("Category", NoOnclause, FALSE),
        WhereClause(Lookup("eq", "Product.price", Str(<<"t">>)))>> }

(* ---------------------------------------------------------- state machine *)
VARIABLES
    model_fields,   \* the class: FieldInfo of each declared field, in declaration order
    instance,       \* the FilterSet instance: per field, whether set and its value
    pc,             \* "constructed", "loop", "returned", "raised"
    arg_query,      \* the query filter() was called with
    exclude_none,   \* the flag filter() was called with
    dump,           \* filter()'s local model_fields = self.model_dump(exclude_unset=True)
    idx,            \* position of the loop over self.model_fields.items()
    query,          \* filter()'s local query
    history,        \* the successive values of query: history[i + 1] after field i
    mapper_calls,   \* the value-mapper invocations so far
    error,          \* the exception that left filter() or the class body, "-" if none
    others          \* the filter() calls other callers run on instances of their own

vars == <<model_fields, instance, pc, arg_query, exclude_none, dump, idx, query,
          history, mapper_calls, error, others>>

\* A pydantic instance of the class: a field the caller did not supply holds
\* its declared default and is not in model_fields_set.
Instances(fields) ==
    { inst \in [1..Len(fields) -> [set : BOOLEAN, value : {None} \cup SuppliedStrings
                                                          \cup {f.default : f \in Range1(fields)}]] :
        \A i \in 1..Len(fields) : ~inst[i].set => inst[i].value = fields[i].default }

InitWith(declarations) ==
    /\ model_fields \in UNION { [1..n -> declarations] : n \in 1..MaxFields }
    /\ instance \in Instances(model_fields)
    /\ pc = "constructed"
    /\ arg_query = <<>>
    /\ exclude_none = TRUE
    /\ dump = <<>>
    /\ idx = 0
    /\ query = <<>>
    /\ history = <<>>
    /\ mapper_calls = <<>>
    /\ error = "-"
    /\ others = <<>>

\* filter(query, exclude_none) is entered: lines 91-97.
FilterCall ==
    /\ pc = "constructed"
    /\ \E q \in Queries, en \in BOOLEAN :
          /\ arg_query' = q
          /\ exclude_none' = en
          /\ query' = q
          /\ history' = <<q>>
    /\ dump' = model_dump(instance)
    /\ idx' = 1
    /\ pc' = "loop"
    /\ UNCHANGED <<model_fields, instance, mapper_calls, error, others>>

\* One iteration of the loop, lines 100-103; an exception leaves filter().
LoopBody ==
    /\ pc = "loop"
    /\ idx <= Len(model_fields)
    /\ LET st == loop_body(model_fields, dump, exclude_none, idx,
                           [status |-> "ok", query |-> query, calls |-> mapper_calls,
                            err |-> "-"])
       IN  /\ pc' = IF st.status = "raised" THEN "raised" ELSE "loop"
           /\ error' = st.err
           /\ query' = st.query
           /\ mapper_calls' = st.calls
           /\ history' = IF st.status = "raised" THEN history
                         ELSE Append(history, st.query)
    /\ idx' = idx + 1
    /\ UNCHANGED <<model_fields, instance, arg_query, exclude_none, dump, others>>

\* return query, line 105.
FilterReturn ==
    /\ pc = "loop"
    /\ idx > Len(model_fields)
    /\ pc' = "returned"
    /\ UNCHANGED <<model_fields, instance, arg_query, exclude_none, dump, idx,
                   query, history, mapper_calls, error, others>>

Next == FilterCall \/ LoopBody \/ FilterReturn

Spec == InitWith(CoreFields) /\ [][Next]_vars
SpecJoin == InitWith(JoinFields) /\ [][Next]_vars
SpecMulti == InitWith(MultiFields) /\ [][Next]_vars
SpecError == InitWith(ErrorFields) /\ [][Next]_vars

(* ------------------------------------------------ vocabulary of the claims *)
\* The filtering dict of field i (the last metadata entry), if it has one.
IsFilterField(i) ==
    LET md == model_fields[i].metadata
    IN  /\ Len(md) > 0
        /\ md[Len(md)].is_dict
        /\ md[Len(md)].sqlalchemy_filter
Meta(i) == model_fields[i].metadata[Len(model_fields[i].metadata)]

\* The three presences of a field of the instance.
Absent(i) == ~instance[i].set
ExplicitNull(i) == instance[i].set /\ instance[i].value = None
Present(i) == instance[i].set /\ instance[i].value # None

\* A field the resolution acts on: supplied, not a skipped null, a filter field.
Actionable(i) ==
    /\ IsFilterField(i)
    /\ Present(i) \/ (ExplicitNull(i) /\ ~exclude_none)
\* A descriptor that records a filter class and at least one column.
WellFormed(i) ==
    /\ IsFilterField(i)
    /\ Meta(i).filter_class \in SingleFieldClasses \cup MultiFieldClasses
    /\ Meta(i).filter_fields # <<>>

Fields == 1..Len(model_fields)
\* The loop has been through field i; it did so without an exception.
Reached(i) == pc # "constructed" /\ idx > i
Done(i) == Reached(i) /\ Len(history) > i
Before(i) == history[i]
After(i) == history[i + 1]

\* The joins a strategy stands for, as clauses, in the declared order.
JoinOf(s) == JoinClause(s.target, s.onclause, s.kind = "outer")
JoinsOf(strategy) ==
    CASE strategy.kind \in {"inner", "outer"} -> <<JoinOf(strategy)>>
      [] strategy.kind = "multi" ->
            [k \in 1..Len(strategy.joins) |-> JoinOf(strategy.joins[k])]
      [] OTHER -> <<>>

\* The value the predicate of field i is built from: the mapper's result when
\* a mapper is attached, and for the substring filters its text in wildcards.
MappedValue(i) ==
    IF Meta(i).value_mapper # NoMapper
    THEN mapper_call(Meta(i).value_mapper, instance[i].value)
    ELSE instance[i].value
IsSubstring(i) ==
    Meta(i).filter_class \in {"_SubstringFilter", "_MultiFieldSubstringFilter"}
HandedValue(i) ==
    IF IsSubstring(i) THEN Str(<<"%">> \o format(MappedValue(i)) \o <<"%">>)
    ELSE MappedValue(i)

\* p1 OR p2 OR ... OR pn, and the disjuncts of a predicate, left to right.
RECURSIVE LeftOr(_)
LeftOr(ps) ==
    IF Len(ps) = 1 THEN ps[1]
    ELSE or_(LeftOr(SubSeq(ps, 1, Len(ps) - 1)), ps[Len(ps)])
RECURSIVE Disjuncts(_)
Disjuncts(p) ==
    IF p.op = "or" THEN Disjuncts(p.left) \o Disjuncts(p.right) ELSE <<p>>

\* The predicate and the clauses a well-formed actionable field stands for.
ExpectedPred(i) ==
    LET m == Meta(i)
    IN  LeftOr([k \in 1..(IF m.filter_class \in SingleFieldClasses THEN 1
                          ELSE Len(m.filter_fields)) |->
                   Lookup(lookup_expr(m.filter_class), m.filter_fields[k],
                          HandedValue(i))])
ExpectedClauses(i) ==
    JoinsOf(Meta(i).field_strategy) \o <<WhereClause(ExpectedPred(i))>>
Contribution(i) == IF Actionable(i) THEN ExpectedClauses(i) ELSE <<>>

RECURSIVE Contributions(_)
Contributions(n) == IF n = 0 THEN <<>> ELSE Contributions(n - 1) \o Contribution(n)

\* A sequence without its i-th element.
Without(seq, i) == SubSeq(seq, 1, i - 1) \o SubSeq(seq, i + 1, Len(seq))
Outcome(st) == [status |-> st.status, query |-> IF st.status = "ok" THEN st.query ELSE <<>>]
\* How the call in progress ended.
Ended == pc \in {"returned", "raised"}
CallOutcome ==
    [status |-> IF pc = "returned" THEN "ok" ELSE "raised",
     query |-> IF pc = "returned" THEN query ELSE <<>>]

(* ------------------------------------------------------------------ claims *)
\* C1: a field the caller never supplied (Absent, with whatever declared
\* default and whatever descriptor) leaves the query as it was when the loop
\* passes it, and the call ends as it would if the field were not declared.
C1_AbsentFieldContributesNothing ==
    \A i \in Fields : Absent(i) =>
        /\ Reached(i) => (Done(i) /\ After(i) = Before(i))
        /\ Ended => CallOutcome =
              Outcome(filter(Without(model_fields, i), Without(instance, i),
                             arg_query, exclude_none))
\* C1 witness: a call returned a changed query although a filter field with
\* a non-null declared default was not supplied.
C1_Witness ==
    /\ pc = "returned"
    /\ query # arg_query
    /\ \E i \in Fields :
          Absent(i) /\ IsFilterField(i) /\ model_fields[i].default # None

\* C2: with exclude_none=True a field explicitly set to null leaves the query
\* as it was; when nothing but nulls was supplied the call returns its input.
C2_ExplicitNullExcluded ==
    exclude_none =>
        /\ \A i \in Fields : (ExplicitNull(i) /\ Reached(i)) =>
               (Done(i) /\ After(i) = Before(i))
        /\ (pc = "returned" /\ \A i \in Fields : Absent(i) \/ ExplicitNull(i))
               => query = arg_query
\* C2 witness: a filter field set to null is the only supplied field and the
\* call, made with exclude_none=True, has returned.
C2_Witness ==
    /\ pc = "returned"
    /\ exclude_none
    /\ arg_query # <<>>
    /\ \E i \in Fields :
          /\ ExplicitNull(i) /\ IsFilterField(i)
          /\ \A j \in Fields \ {i} : Absent(j)

\* C3 as stated: with exclude_none=False every filter field explicitly set to
\* null is resolved, and what it adds is its strategy's joins followed by the
\* one predicate lookup_operator(column, null).
C3_NullPredicateAsStated ==
    ~exclude_none =>
        \A i \in Fields : (ExplicitNull(i) /\ WellFormed(i) /\ Reached(i)) =>
            /\ Done(i)
            /\ After(i) = Before(i) \o JoinsOf(Meta(i).field_strategy)
                   \o <<WhereClause(Lookup(lookup_expr(Meta(i).filter_class),
                                           Meta(i).filter_fields[1], None))>>
\* C3 amended: with exclude_none=False a field explicitly set to null whose
\* descriptor records a filter class and a column is resolved: it adds its
\* strategy's joins and exactly one predicate, built from the value handed
\* to the filter. That value is null itself for a single-column filter with
\* no value mapper and no substring wrapping, so that an IsFilter field with
\* the default strategy adds the single predicate column IS NULL.
C3_NullPredicateAmended ==
    ~exclude_none =>
        \A i \in Fields : (ExplicitNull(i) /\ WellFormed(i) /\ Reached(i)) =>
            /\ Done(i)
            /\ Len(After(i)) = Len(Before(i)) + Len(JoinsOf(Meta(i).field_strategy)) + 1
            /\ SubSeq(After(i), 1, Len(After(i)) - 1)
                   = Before(i) \o JoinsOf(Meta(i).field_strategy)
            /\ After(i)[Len(After(i))].kind = "where"
            /\ \A k \in 1..Len(Disjuncts(After(i)[Len(After(i))].pred)) :
                   LET p == Disjuncts(After(i)[Len(After(i))].pred)[k]
                   IN  /\ p.op = lookup_expr(Meta(i).filter_class)
                       /\ p.val = HandedValue(i)
            /\ (/\ Meta(i).filter_class \in SingleFieldClasses \ {"_SubstringFilter"}
                /\ Meta(i).value_mapper = NoMapper)
                 => After(i)[Len(After(i))].pred
                       = Lookup(lookup_expr(Meta(i).filter_class),
                                Meta(i).filter_fields[1], None)
            /\ (/\ Meta(i).filter_class = "_IsFilter"
                /\ Meta(i).value_mapper = NoMapper
                /\ Meta(i).field_strategy = UndefinedStrategy)
                 => After(i) = Before(i)
                       \o <<WhereClause(Lookup("is_", Meta(i).filter_fields[1], None))>>
\* C3 witness: the loop has resolved an IsFilter field explicitly set to
\* null, in a call made with exclude_none=False.
C3_Witness ==
    /\ ~exclude_none
    /\ \E i \in Fields :
          /\ ExplicitNull(i) /\ IsFilterField(i) /\ Done(i)
          /\ Meta(i).filter_class = "_IsFilter"

\* C4: the query is threaded through the fields in declaration order: each
\* field the loop has passed left the query extended by its own contribution
\* (nothing for a field that is not actionable), and the returned query is
\* the input query followed by the contributions in declaration order.
C4_ThreadedInDeclarationOrder ==
    /\ \A i \in Fields : Done(i) => After(i) = Before(i) \o Contribution(i)
    /\ pc # "constructed" => history[1] = arg_query
    /\ pc = "returned" =>
          query = arg_query \o Contributions(Len(model_fields))
\* C4 witness: a call on a non-empty query returned after two actionable
\* fields with different contributions.
C4_Witness ==
    /\ pc = "returned"
    /\ arg_query # <<>>
    /\ \E i, j \in Fields :
          /\ i < j /\ Actionable(i) /\ Actionable(j)
          /\ Contribution(i) # Contribution(j)

C5_InnerJoinThenPredicate ==
    \A i \in Fields :
        (Done(i) /\ Actionable(i) /\ Meta(i).field_strategy.kind = "inner") =>
            After(i) = Before(i)
                \o <<JoinClause(Meta(i).field_strategy.target,
                                Meta(i).field_strategy.onclause, FALSE),
                     WhereClause(ExpectedPred(i))>>
\* C5 witness: a call returned after resolving one inner-join field with an
\* on-clause and one without.
C5_Witness ==
    /\ pc = "returned"
    /\ \E i, j \in Fields :
          /\ Actionable(i) /\ Meta(i).field_strategy.kind = "inner"
          /\ Meta(i).field_strategy.onclause = OnCategory
          /\ Actionable(j) /\ Meta(j).field_strategy.kind = "inner"
          /\ Meta(j).field_strategy.onclause = NoOnclause

\* C6: an actionable field whose strategy is MultiJoinStrategy(j1..jn) adds
\* j1..jn in the declared order, each once and as inner or outer join as
\* declared, and then the where-predicate once, after the last join.
C6_MultiJoinInDeclaredOrder ==
    \A i \in Fields :
        (Done(i) /\ Actionable(i) /\ Meta(i).field_strategy.kind = "multi") =>
            LET js == Meta(i).field_strategy.joins
                n == Len(js)
            IN  /\ n >= 1
                /\ Len(After(i)) = Len(Before(i)) + n + 1
                /\ SubSeq(After(i), 1, Len(Before(i))) = Before(i)
                /\ \A k \in 1..n :
                      After(i)[Len(Before(i)) + k]
                          = JoinClause(js[k].target, js[k].onclause,
                                       js[k].kind = "outer")
                /\ After(i)[Len(Before(i)) + n + 1] = WhereClause(ExpectedPred(i))
\* C6 witness: the loop has resolved a field whose MultiJoinStrategy chains
\* an inner join and an outer join.
C6_Witness ==
    \E i \in Fields :
        /\ Done(i) /\ Actionable(i) /\ Meta(i).field_strategy.kind = "multi"
        /\ Len(Meta(i).field_strategy.joins) >= 2
        /\ \E k, l \in 1..Len(Meta(i).field_strategy.joins) :
              /\ Meta(i).field_strategy.joins[k].kind = "inner"
              /\ Meta(i).field_strategy.joins[l].kind = "outer"

\* The number of times clause c occurs in query q.
Occurrences(q, c) == Cardinality({k \in 1..Len(q) : q[k] = c})
\* The position in the returned query at which field i's clauses begin.
Offset(i) == Len(arg_query) + Len(Contributions(i - 1))

\* C7: joins are never de-duplicated. In the returned query every actionable
\* field with a single-join strategy has its own join, directly followed by
\* its own predicate, and a join occurs as many times as the input query and
\* the actionable fields together ask for it.
C7_JoinsNotDeduplicated ==
    pc = "returned" =>
        \A i \in Fields :
            (Actionable(i) /\ Meta(i).field_strategy.kind \in {"inner", "outer"}) =>
                LET j == JoinOf(Meta(i).field_strategy)
                IN  /\ Len(query) >= Offset(i) + 2
                    /\ query[Offset(i) + 1] = j
                    /\ query[Offset(i) + 2] = WhereClause(ExpectedPred(i))
                    /\ Occurrences(query, j)
                          = Occurrences(arg_query, j)
                            + Occurrences(Contributions(Len(model_fields)), j)
                    /\ Occurrences(query, j)
                          >= Cardinality({f \in Fields :
                                 /\ Actionable(f)
                                 /\ Meta(f).field_strategy = Meta(i).field_strategy})
\* C7 witness: a call returned after resolving two fields that hold
\* different values and use the same join strategy.
C7_Witness ==
    /\ pc = "returned"
    /\ \E i, j \in Fields :
          /\ i < j /\ Actionable(i) /\ Actionable(j)
          /\ Meta(i).field_strategy.kind = "inner"
          /\ Meta(i).field_strategy = Meta(j).field_strategy
          /\ instance[i].value # instance[j].value

\* C8: an actionable multi-field filter with columns c1..cn (n >= 1) adds
\* its strategy's joins once and then exactly one where-predicate, the OR of
\* op(c1, v) .. op(cn, v): one disjunct per column, in declaration order, all
\* with the filter's lookup operator and all with the same value v, the value
\* the filter was handed.
C8_MultiFieldOrOfColumns ==
    \A i \in Fields :
        (/\ Reached(i) /\ Actionable(i)
         /\ Meta(i).filter_class \in MultiFieldClasses
         /\ Len(Meta(i).filter_fields) >= 1) =>
            LET cols == Meta(i).filter_fields
                js == JoinsOf(Meta(i).field_strategy)
                last == After(i)[Len(After(i))]
            IN  /\ Done(i)
                /\ Len(After(i)) = Len(Before(i)) + Len(js) + 1
                /\ SubSeq(After(i), 1, Len(After(i)) - 1) = Before(i) \o js
                /\ last.kind = "where"
                /\ Disjuncts(last.pred)
                      = [k \in 1..Len(cols) |->
                            Lookup(lookup_expr(Meta(i).filter_class), cols[k],
                                   HandedValue(i))]
                /\ (/\ Meta(i).filter_class = "_MultiFieldFilter"
                    /\ Meta(i).value_mapper = NoMapper)
                     => \A k \in 1..Len(cols) :
                           Disjuncts(last.pred)[k]
                               = Lookup("eq", cols[k], instance[i].value)
\* C8 witness: the loop has resolved a multi-field filter that has at least
\* two columns and a join strategy.
C8_Witness ==
    \E i \in Fields :
        /\ Done(i) /\ Actionable(i)
        /\ Meta(i).filter_class = "_MultiFieldFilter"
        /\ Len(Meta(i).filter_fields) >= 2
        /\ Meta(i).field_strategy.kind = "inner"

\* The patterns of the predicate field i has added, one per disjunct.
Patterns(i) == Disjuncts(After(i)[Len(After(i))].pred)
\* C9 as stated: a substring filter field holding the string v adds a
\* case-insensitive-like predicate whose pattern is '%' + v + '%' for every
\* column, with or without a value mapper.
C9_SubstringPatternAsStated ==
    \A i \in Fields :
        (Done(i) /\ Present(i) /\ WellFormed(i) /\ IsSubstring(i)) =>
            \A k \in 1..Len(Patterns(i)) :
                /\ Patterns(i)[k].op = "ilike_op"
                /\ Patterns(i)[k].val
                      = Str(<<"%">> \o instance[i].value.s \o <<"%">>)
\* C9 amended: a substring filter field with value v adds a case-insensitive-
\* like predicate whose pattern, for every column, is '%' + s + '%', where s
\* is the text of v when no value mapper is attached and the text of
\* mapper(v) when one is: one wildcard on each side, also when v has a '%'.
C9_SubstringPatternAmended ==
    \A i \in Fields :
        (Done(i) /\ Actionable(i) /\ WellFormed(i) /\ IsSubstring(i)) =>
            /\ Len(Patterns(i))
                  = (IF Meta(i).filter_class = "_SubstringFilter" THEN 1
                     ELSE Len(Meta(i).filter_fields))
            /\ \A k \in 1..Len(Patterns(i)) :
                  /\ Patterns(i)[k].op = "ilike_op"
                  /\ Patterns(i)[k].val.t = "str"
                  /\ Patterns(i)[k].val.s
                        = <<"%">> \o format(MappedValue(i)) \o <<"%">>
            /\ (Present(i) /\ Meta(i).value_mapper = NoMapper) =>
                  \A k \in 1..Len(Patterns(i)) :
                      Patterns(i)[k].val.s
                          = <<"%">> \o instance[i].value.s \o <<"%">>
\* C9 witness: the loop has resolved a substring filter whose value starts
\* with '%' and a substring filter with a value mapper.
C9_Witness ==
    /\ \E i \in Fields :
          /\ Done(i) /\ Present(i) /\ IsFilterField(i)
          /\ Meta(i).filter_class = "_SubstringFilter"
          /\ Meta(i).value_mapper = NoMapper
          /\ instance[i].value.s[1] = "%"
    /\ \E j \in Fields :
          /\ Done(j) /\ Present(j) /\ WellFormed(j) /\ IsSubstring(j)
          /\ Meta(j).value_mapper # NoMapper

(* ------------------------------------------- declaration of the class *)
\* The class body of a FilterSet runs field by field; a strategy constructor
\* that raises ends it, and then there is no class, no instance and no call.
InitDeclare ==
    /\ model_fields = <<>>
    /\ instance = <<>>
    /\ pc = "declaring"
    /\ arg_query = <<>>
    /\ exclude_none = TRUE
    /\ dump = <<>>
    /\ idx = 0
    /\ query = <<>>
    /\ history = <<>>
    /\ mapper_calls = <<>>
    /\ error = "-"
    /\ others = <<>>

\* A field is declared with a strategy that takes no join list.
DeclareField ==
    /\ pc = "declaring"
    /\ Len(model_fields) < MaxFields
    /\ \E f \in { WhereFilter("Product.id", UndefinedStrategy, None),
                  InFilter("Category.name",
                           InnerJoinStrategy("Category", NoOnclause), None) } :
          model_fields' = Append(model_fields, f)
    /\ UNCHANGED <<instance, pc, arg_query, exclude_none, dump, idx, query,
                   history, mapper_calls, error, others>>

\* A field is declared with MultiJoinStrategy(j1, .., jn), n from 0 on.
DeclareMultiJoinField ==
    /\ pc = "declaring"
    /\ Len(model_fields) < MaxFields
    /\ \E n \in 0..MaxJoins :
          LET made == MultiJoinStrategy_init([k \in 1..n |-> ChainJoin(k)])
          IN  IF made.tag = "raise"
              THEN /\ pc' = "config_error"
                   /\ error' = made.err
                   /\ UNCHANGED model_fields
              ELSE /\ model_fields' =
                         Append(model_fields,
                                InFilter("Country.name", made.strategy, None))
                   /\ UNCHANGED <<pc, error>>
    /\ UNCHANGED <<instance, arg_query, exclude_none, dump, idx, query,
                   history, mapper_calls, others>>

\* The class exists; a caller constructs an instance of it.
Instantiate ==
    /\ pc = "declaring"
    /\ Len(model_fields) >= 1
    /\ instance' \in Instances(model_fields)
    /\ pc' = "constructed"
    /\ UNCHANGED <<model_fields, arg_query, exclude_none, dump, idx, query,
                   history, mapper_calls, error, others>>

NextDeclare ==
    DeclareField \/ DeclareMultiJoinField \/ Instantiate
        \/ FilterCall \/ LoopBody \/ FilterReturn

SpecDeclare == InitDeclare /\ [][NextDeclare]_vars

\* C11: MultiJoinStrategy() with zero joins raises at construction. No
\* strategy object with an empty join list ever exists in a declared class,
\* so no resolve call reaches one; when the constructor has raised there is
\* no instance and no query has been touched.
C11_NoEmptyMultiJoin ==
    /\ \A n \in 0..MaxJoins :
          (MultiJoinStrategy_init([k \in 1..n |-> ChainJoin(k)]).tag = "raise")
              <=> (n = 0)
    /\ \A i \in Fields :
          (IsFilterField(i) /\ Meta(i).field_strategy.kind = "multi")
              => Len(Meta(i).field_strategy.joins) >= 1
    /\ pc = "config_error" =>
          /\ error = NoJoinsError
          /\ instance = <<>>
          /\ history = <<>> /\ query = <<>> /\ idx = 0
          /\ mapper_calls = <<>>
    /\ error = NoJoinsError => pc = "config_error"
\* C11 witness: a MultiJoinStrategy was constructed with no joins while the
\* class already had a field, and the constructor has raised.
C11_Witness ==
    /\ pc = "config_error"
    /\ Len(model_fields) >= 1

\* The number of times the value mapper was invoked for field i, and what
\* it was invoked with.
MapperCallsOf(i) == {k \in 1..Len(mapper_calls) : mapper_calls[k].field = i}
HasMapper(i) == IsFilterField(i) /\ Meta(i).value_mapper # NoMapper
\* A descriptor that records a filter class and at least one column.
HasClassAndColumns(i) ==
    /\ IsFilterField(i)
    /\ Meta(i).filter_class # NoFilterClass
    /\ Meta(i).filter_fields # <<>>

\* C12: when the loop reaches an actionable field whose descriptor records a
\* filter class but no column, filter() raises the configuration error and
\* returns nothing: the query is still the input query followed by what the
\* fields before it added, no later field is processed and the failing
\* field's value mapper has not been invoked.
C12_NoColumnsRaises ==
    \A i \in Fields :
        (/\ Reached(i) /\ Actionable(i)
         /\ Meta(i).filter_class # NoFilterClass
         /\ Meta(i).filter_fields = <<>>) =>
            /\ pc = "raised"
            /\ error = NoFilterFieldsError
            /\ idx = i + 1
            /\ Len(history) = i
            /\ history[1] = arg_query
            /\ query = history[i]
            /\ query = arg_query \o Contributions(i - 1)
            /\ MapperCallsOf(i) = {}
            /\ \A k \in 1..Len(mapper_calls) : mapper_calls[k].field < i
\* C12 witness: filter() has raised at a field with no column that has a
\* value mapper, after an earlier field had extended the query.
C12_Witness ==
    /\ pc = "raised"
    /\ \E i \in Fields :
          /\ i > 1 /\ Reached(i) /\ Actionable(i) /\ HasMapper(i)
          /\ Meta(i).filter_class # NoFilterClass
          /\ Meta(i).filter_fields = <<>>
          /\ query # arg_query

\* What C13 says of a field with a mapper that the loop acts on: the mapper
\* was invoked exactly once, on the field's realized value; if it raised,
\* filter() raised the same exception and returned nothing; if not, the
\* field's predicate is built from mapper(value), or filter() found the class
\* to be no filter only after the mapper had run.
MappedOnce(i) ==
    /\ Cardinality(MapperCallsOf(i)) = 1
    /\ \A k \in MapperCallsOf(i) : mapper_calls[k].arg = instance[i].value
    /\ IF mapper_raises(Meta(i).value_mapper)
       THEN /\ pc = "raised" /\ error = MapperError
            /\ idx = i + 1 /\ Len(history) = i /\ query = history[i]
       ELSE IF Meta(i).filter_class \in SingleFieldClasses \cup MultiFieldClasses
       THEN /\ Done(i)
            /\ After(i) = Before(i) \o ExpectedClauses(i)
            /\ \A k \in 1..Len(Disjuncts(After(i)[Len(After(i))].pred)) :
                  Disjuncts(After(i)[Len(After(i))].pred)[k].val
                      = (IF IsSubstring(i)
                         THEN Str(<<"%">> \o format(mapper_call(Meta(i).value_mapper,
                                                    instance[i].value)) \o <<"%">>)
                         ELSE mapper_call(Meta(i).value_mapper, instance[i].value))
       ELSE /\ pc = "raised" /\ error = UnknownFilterClassError
            /\ idx = i + 1 /\ Len(history) = i
\* The mapper of a field is not invoked before the loop reaches the field.
NoCallAhead == \A i \in Fields : ~Reached(i) => MapperCallsOf(i) = {}

\* C13 as stated: every actionable field with a value mapper has its mapper
\* invoked exactly once, and no other field has its mapper invoked.
C13_MapperOnceAsStated ==
    /\ NoCallAhead
    /\ \A i \in Fields : Reached(i) =>
          IF Actionable(i) /\ HasMapper(i) THEN MappedOnce(i)
          ELSE MapperCallsOf(i) = {}
\* C13 amended: every actionable field with a value mapper whose descriptor
\* records a filter class and at least one column has its mapper invoked
\* exactly once, on the realized value and before the filter is instantiated,
\* and its predicate is built from mapper(value); a mapper's exception leaves
\* filter() unchanged and no query is returned. The mapper is never invoked
\* for a skipped field, nor for a field whose descriptor lacks the filter
\* class or the columns: there filter() raises before the mapper is reached.
C13_MapperOnceAmended ==
    /\ NoCallAhead
    /\ \A i \in Fields : Reached(i) =>
          IF Actionable(i) /\ HasMapper(i) /\ HasClassAndColumns(i)
          THEN MappedOnce(i)
          ELSE MapperCallsOf(i) = {}
\* C13 witness: filter() has raised the exception of a field's mapper after
\* an earlier field's mapper had run and its field had extended the query.
C13_Witness ==
    /\ pc = "raised"
    /\ error = MapperError
    /\ \E i, j \in Fields :
          /\ i < j
          /\ Done(i) /\ Actionable(i) /\ HasMapper(i) /\ After(i) # Before(i)
          /\ Reached(j) /\ Actionable(j) /\ HasMapper(j)
          /\ mapper_raises(Meta(j).value_mapper)

(* ------------------------------------------------------ concurrent calls *)
\* Largest number of filter() calls that run at the same time.
MaxCalls == 2

\* The classes the concurrent callers share.
ConcurrentClasses ==
    { << FilterValueMapper("tag",
             SubstringFilter("Product.name", UndefinedStrategy, None)),
         WhereFilter("Category.name", InnerJoinStrategy("Category", OnCategory),
                     None) >>,
      << IsFilter("Product.price", UndefinedStrategy, None),
         FilterValueMapper("tag",
             MultiFieldSubstringFilter(<<>>, UndefinedStrategy, None)) >> }
\* The query each of them filters: it joins and has a predicate already.
ConcurrentQuery == CHOOSE q \in Queries : q # <<>>
\* Their instances: every field unset, null or "t".
ConcurrentInstances(fields) ==
    { inst \in Instances(fields) :
        \A i \in 1..Len(fields) : inst[i].value \in {None, Str(<<"t">>)} }

\* Mutant: the column is taken out of the descriptor's list (pop) when a
\* single-column filter is built, instead of being read from it.
descriptor_after_popping(field_info) ==
    LET n == Len(field_info.metadata)
    IN  IF field_info.metadata[n].filter_class \in SingleFieldClasses
        THEN [field_info EXCEPT !.metadata[n].filter_fields = Tail(@)]
        ELSE field_info

\* The FieldInfo of a field after filter() has resolved it: parse_field_and_
\* apply_filters and validate_and_instantiate_filters read the metadata
\* (metadata.get, filter_fields[0]) and assign nothing.
descriptor_after(field_info) == field_info

\* A caller's own filter() call, before it is entered.
NewCall(inst) ==
    [instance |-> inst, pc |-> "constructed", arg_query |-> <<>>,
     exclude_none |-> TRUE, dump |-> <<>>, idx |-> 0, query |-> <<>>,
     mapper_calls |-> <<>>, error |-> "-"]

InitConcurrent ==
    /\ model_fields \in ConcurrentClasses
    /\ others \in [1..MaxCalls -> {NewCall(inst) :
                                     inst \in ConcurrentInstances(model_fields)}]
    /\ instance = <<>>
    /\ pc = "declared"
    /\ arg_query = <<>>
    /\ exclude_none = TRUE
    /\ dump = <<>>
    /\ idx = 0
    /\ query = <<>>
    /\ history = <<>>
    /\ mapper_calls = <<>>
    /\ error = "-"

OwnUnchanged ==
    UNCHANGED <<instance, pc, arg_query, exclude_none, dump, idx, query,
                history, mapper_calls, error>>

\* Caller c enters filter(): lines 91-97.
OtherFilterCall ==
    /\ \E c \in DOMAIN others, en \in BOOLEAN :
          /\ others[c].pc = "constructed"
          /\ others' = [others EXCEPT ![c] =
                 [@ EXCEPT !.pc = "loop",
                           !.arg_query = ConcurrentQuery,
                           !.query = ConcurrentQuery,
                           !.exclude_none = en,
                           !.dump = model_dump(others[c].instance),
                           !.idx = 1]]
    /\ UNCHANGED model_fields
    /\ OwnUnchanged

\* Caller c runs one iteration of its loop: lines 100-103.
OtherLoopBody ==
    /\ \E c \in DOMAIN others :
          /\ others[c].pc = "loop"
          /\ others[c].idx <= Len(model_fields)
          /\ LET o == others[c]
                 st == loop_body(model_fields, o.dump, o.exclude_none, o.idx,
                                 [status |-> "ok", query |-> o.query,
                                  calls |-> o.mapper_calls, err |-> "-"])
                 resolved == st.status = "ok" /\ st.query # o.query
             IN  /\ others' = [others EXCEPT ![c] =
                        [@ EXCEPT !.pc = IF st.status = "raised" THEN "raised"
                                         ELSE "loop",
                                  !.query = st.query,
                                  !.mapper_calls = st.calls,
                                  !.error = st.err,
                                  !.idx = o.idx + 1]]
                 /\ model_fields' =
                       IF resolved
                       THEN [model_fields EXCEPT
                                ![o.idx] = descriptor_after(model_fields[o.idx])]
                       ELSE model_fields
    /\ OwnUnchanged

\* Caller c returns its query: line 105.
OtherFilterReturn ==
    /\ \E c \in DOMAIN others :
          /\ others[c].pc = "loop"
          /\ others[c].idx > Len(model_fields)
          /\ others' = [others EXCEPT ![c].pc = "returned"]
    /\ UNCHANGED model_fields
    /\ OwnUnchanged

NextConcurrent == OtherFilterCall \/ OtherLoopBody \/ OtherFilterReturn

SpecConcurrent == InitConcurrent /\ [][NextConcurrent]_vars

\* How caller c's call ended, and how the same call ends when run alone.
OtherOutcome(o) ==
    [status |-> IF o.pc = "returned" THEN "ok" ELSE "raised",
     query |-> IF o.pc = "returned" THEN o.query ELSE <<>>,
     calls |-> o.mapper_calls,
     err |-> o.error]
AloneOutcome(fields, o) ==
    LET st == filter(fields, o.instance, o.arg_query, o.exclude_none)
    IN  [status |-> st.status,
         query |-> IF st.status = "ok" THEN st.query ELSE <<>>,
         calls |-> st.calls,
         err |-> st.err]

====
